---- MODULE Spec2Model ----
(***************************************************************************)
(* Model of the generation pipeline of the Idea Collision Engine API:      *)
(*   POST /api/collisions/generate                                         *)
(*     AuthMiddleware -> UsageLimitMiddleware -> RateLimitMiddleware        *)
(*     -> CollisionHandler.GenerateCollision          (cmd/server/main.go) *)
(* for the requests of one authenticated principal.  Every cache command   *)
(* and every database statement is one step, so that concurrent requests   *)
(* interleave between them, and each may fail (network / server error).    *)
(*                                                                         *)
(* Time is counted in ticks, Res ticks to the second, so that requests can *)
(* arrive anywhere inside a second; time.Time.Unix() truncates to seconds. *)
(* The sorted-set member of a rate-limit entry is now.UnixNano(); distinct *)
(* calls read distinct nanoseconds, so the request number stands for it.   *)
(* The usage cache entry has a TTL of 5 minutes, far beyond MaxTime, so    *)
(* its expiry is not a step of this model.  At most MaxFaults commands     *)
(* fail in one run.                                                        *)
(***************************************************************************)
EXTENDS Integers, FiniteSets, Sequences, TLC

\* ---------------------------------------------------------------- bounds
NReq == 2                \* requests of the principal, numbered by arrival
MaxTime == 2             \* last clock tick
Res == 2                 \* clock ticks per second
WindowSeconds == 1       \* RateLimitConfig.WindowSeconds (W)
MaxRequests == 1         \* RateLimitConfig.MaxRequests (L)
MaxFaults == 2           \* failing cache commands / database statements per run

\* ------------------------------------------------------ program constants
TierFree == "free"
TierPro == "pro"
TierTeam == "team"
Tiers == {TierFree, TierPro, TierTeam}
FreeLimit == 5
SkipPremium == TRUE

\* UsageLimits: free 5, pro/team -1 (unlimited)
UsageLimits(t) == IF t = TierFree THEN FreeLimit ELSE -1

Req == 1..NReq
Bodies == {"valid", "invalid", "malformed"}

\* models.CollisionInput as c.BodyParser delivers it; wellformed is FALSE for
\* a body BodyParser rejects.  A missing field is the zero value of its type.
ProjectTypes == {"product", "content", "business", "research"}
CollisionIntensities == {"gentle", "moderate", "radical"}
ValidPayload == [wellformed |-> TRUE, user_interests |-> <<"ai">>,
                 current_project |-> "app", project_type |-> "product",
                 collision_intensity |-> "moderate"]
Payloads == {ValidPayload,
             [ValidPayload EXCEPT !.wellformed = FALSE],
             [ValidPayload EXCEPT !.user_interests = <<>>],
             [ValidPayload EXCEPT !.current_project = ""],
             [ValidPayload EXCEPT !.project_type = "art"],
             [ValidPayload EXCEPT !.collision_intensity = "extreme"]}

\* one body of each kind
KindPayloads == {ValidPayload,
                 [ValidPayload EXCEPT !.wellformed = FALSE],
                 [ValidPayload EXCEPT !.user_interests = <<>>]}

\* faulty variant: only the presence of the string fields is checked
validatorStruct_RequiredOnly(in) ==
  /\ in.current_project # ""
  /\ in.project_type # ""
  /\ in.collision_intensity # ""

\* h.validator.Struct(&input) with the validate tags of CollisionInput:
\* "required,min=1" (a nil slice fails required, an empty one fails min=1),
\* "required", "required,oneof=...", "required,oneof=..."
validatorStruct(in) ==
  /\ Len(in.user_interests) >= 1
  /\ in.current_project # ""
  /\ in.project_type # "" /\ in.project_type \in ProjectTypes
  /\ in.collision_intensity # "" /\ in.collision_intensity \in CollisionIntensities

\* what the handler makes of a body
BodyKind(in) ==
  IF ~in.wellformed THEN "malformed"
  ELSE IF validatorStruct(in) THEN "valid" ELSE "invalid"
NoRow == -1              \* no user_usage row matches / nil *UserUsage
NoTTL == -1              \* the rate-limit key carries no TTL
InitCounts == {0, FreeLimit - 1, FreeLimit}

VARIABLES
  now,          \* wall clock, in ticks
  usageRow,     \* collision_count of the principal's current user_usage row, or NoRow
  usageCache,   \* count held under user:usage:{id}, or NoRow when the key is absent
  rlSet,        \* sorted set rate:limit:{id}:{W}: set of [member, score]
  rlTTL,        \* tick at which the rate-limit key expires, or NoTTL
  sessions,     \* ids of the rows of collision_sessions (one per request)
  pc,           \* position of each request in the pipeline
  tier,         \* subscription_tier claim of the request's token
  payload,      \* the body the request carries
  usage,        \* local `usage` of UsageLimitMiddleware (NoRow = nil)
  rlNow,        \* local `now` of CheckRateLimit
  rlCount,      \* local `count` of CheckRateLimit
  resp,         \* response written for the request
  headers,      \* X-RateLimit-* headers set on the response, or NoHeaders
  log,          \* effects of the request, in order
  startUsage,   \* durable usage count when the request arrived
  startWindow,  \* number of in-window rate-limit entries when the request arrived
  faults,       \* cache commands and database statements that have failed so far
  cancelled,    \* the request's client has gone or its deadline has expired
  cfg,          \* the RateLimitConfig the limiter is mounted with
  \* the user_usage table over the days (usage meter)
  today,        \* CURRENT_DATE, as a day number
  rows,         \* rows of user_usage of the principal: set of [reset_date, count]
  obs,          \* what the calls of GetUserUsage returned, in order
  usageStatus,  \* the last response of GET /collisions/usage, n counting them
  \* one run of the engine and of the enrichment (collision engine)
  catalog,      \* CollisionEngine.Domains: sequence of domain names
  input,        \* models.CollisionInput: [interests, intensity]
  premium,      \* the principal's tier is pro or team
  template,     \* the result as CollisionEngine.GenerateCollision returned it
  result,       \* the result the handler holds, answered with status 200
  llm,          \* the LLM calls made so far: [field, outcome]
  stored,       \* the CollisionResult of the session the run inserted
  epc,          \* position of the run
  scored,       \* the DomainMatch list of selectCollisionDomain before the sort
  ranked,       \* the list after sort.Slice
  picked,       \* the DomainMatch selectWithRandomness returned
  \* the session and domain routes (history, rating, premium domains)
  table,        \* rows of collision_sessions
  domainCache,  \* entry under collision:domains:premium
  calls         \* the calls made so far, each with its response

pipelineVars == <<now, usageRow, usageCache, rlSet, rlTTL, sessions, pc, tier, payload,
                  usage, rlNow, rlCount, resp, headers, log, startUsage, startWindow, faults,
                  cancelled, cfg>>
meterVars == <<today, rows, obs, usageStatus>>
engineVars == <<catalog, input, premium, template, result, llm, stored, epc,
                scored, ranked, picked>>

apiVars == <<table, domainCache, calls>>

vars == <<pipelineVars, meterVars, engineVars, apiVars>>

\* kind of body each request carries
body == [r \in Req |-> BodyKind(payload[r])]

\* no X-RateLimit-* header is set on the response
NoHeaders == [set |-> FALSE, limit |-> 0, remaining |-> 0, reset |-> 0, delay |-> 0]

globals == <<usageRow, usageCache, rlSet, rlTTL, sessions>>

NoResp == [code |-> 0, error |-> "none"]
Response(c, e) == [code |-> c, error |-> e]

\* time.Time.Unix(): whole seconds
Unix(t) == t \div Res

Has(r, e) == \E i \in DOMAIN log[r] : log[r][i] = e
HasAny(r, S) == \E i \in DOMAIN log[r] : log[r][i] \in S

\* the usage meter of the day-level model at rest
\* no call of GET /collisions/usage has been answered
NoStatus == [n |-> 0, code |-> 0, tier |-> "none", used |-> 0, limit |-> 0,
             remaining |-> 0, reset_date |-> -1, unlimited |-> FALSE]

MeterIdle ==
  /\ today = 0
  /\ rows = {}
  /\ obs = <<>>
  /\ usageStatus = NoStatus

NoResult == [primary_domain |-> "", collision_domain |-> "", connection |-> "",
             spark_questions |-> <<>>, examples |-> <<>>, next_steps |-> <<>>,
             error |-> FALSE]

\* no DomainMatch has been selected
NoMatch == [Domain |-> -1, RelevanceScore |-> 0, NoveltyScore |-> 0, OverallScore |-> 0]

\* no run of the engine is modelled
EngineIdle ==
  /\ catalog = <<>>
  /\ input = [interests |-> <<>>, intensity |-> "moderate"]
  /\ premium = FALSE
  /\ template = NoResult
  /\ result = NoResult
  /\ llm = <<>>
  /\ stored = NoResult
  /\ epc = "off"
  /\ scored = <<>>
  /\ ranked = <<>>
  /\ picked = NoMatch

\* the cache entry of the premium domains is absent
NoCache == [present |-> FALSE, domains |-> {}]

\* no call of the session and domain routes is modelled
ApiIdle ==
  /\ table = {}
  /\ domainCache = NoCache
  /\ calls = <<>>

\* middleware.RateLimitConfig (SkipPremium is a constant of the model)
RateLimitConfig(w, l) == [WindowSeconds |-> w, MaxRequests |-> l]

\* no request has arrived
NoRequests ==
  /\ now = 0
  /\ usageRow \in {NoRow} \cup InitCounts
  /\ usageCache = NoRow
  /\ rlSet = {}
  /\ rlTTL = NoTTL
  /\ sessions = {}
  /\ pc = [r \in Req |-> "idle"]
  /\ tier = [r \in Req |-> TierFree]
  /\ payload = [r \in Req |-> ValidPayload]
  /\ usage = [r \in Req |-> NoRow]
  /\ rlNow = [r \in Req |-> 0]
  /\ rlCount = [r \in Req |-> 0]
  /\ resp = [r \in Req |-> NoResp]
  /\ headers = [r \in Req |-> NoHeaders]
  /\ log = [r \in Req |-> <<>>]
  /\ startUsage = [r \in Req |-> 0]
  /\ startWindow = [r \in Req |-> 0]
  /\ faults = 0
  /\ cancelled = [r \in Req |-> FALSE]

\* the pipeline after construction, the limiter mounted as in main.go
PipelineInit ==
  /\ NoRequests
  /\ cfg = RateLimitConfig(WindowSeconds, MaxRequests)

Init ==
  /\ PipelineInit
  /\ MeterIdle
  /\ EngineIdle
  /\ ApiIdle

\* ------------------------------------------------------------- helpers
Goto(r, p) == pc' = [pc EXCEPT ![r] = p]
Emit(r, e) == log' = [log EXCEPT ![r] = Append(@, e)]
Emit2(r, e, f) == log' = [log EXCEPT ![r] = Append(Append(@, e), f)]
Respond(r, c, e) == resp' = [resp EXCEPT ![r] = Response(c, e)]

\* a cache command or database statement fails / succeeds
Fault == faults < MaxFaults /\ faults' = faults + 1
NoFault == UNCHANGED faults

\* faulty variant: only pro counts as premium
IsPremium_ProOnly(t) == t = TierPro

\* tier == models.TierPro || tier == models.TierTeam
IsPremium(t) == t = TierPro \/ t = TierTeam

\* faulty variant: the limit is exceeded only above it
UsageExceeded_Strict(t, count) == UsageLimits(t) > 0 /\ count > UsageLimits(t)

\* limit > 0 && usage.CollisionCount >= limit
UsageExceeded(t, count) == UsageLimits(t) > 0 /\ count >= UsageLimits(t)

\* ZREMRANGEBYSCORE key 0 max: removes the members with 0 <= score <= max
ZRemRangeByScoreSet(set, max) == {e \in set : ~(0 <= e.score /\ e.score <= max)}

\* windowStart.Unix() for windowStart = now - W seconds
WindowStartUnix(t) == Unix(t - cfg.WindowSeconds * Res)

\* Redis deletes a sorted set that has become empty, and with it the TTL
KeyTTL(set, ttl) == IF set = {} THEN NoTTL ELSE ttl

\* -------------------------------------------------------------- arrival
\* AuthMiddleware has accepted the bearer token: user_id and
\* subscription_tier are in the context.  Requests are numbered by arrival.
Start(r, t, b) ==
  /\ pc[r] = "idle"
  /\ \A q \in Req : q < r => pc[q] # "idle"
  /\ tier' = [tier EXCEPT ![r] = t]
  /\ payload' = [payload EXCEPT ![r] = b]
  /\ startUsage' = [startUsage EXCEPT ![r] = IF usageRow = NoRow THEN 0 ELSE usageRow]
  /\ startWindow' = [startWindow EXCEPT ![r] =
        Cardinality(ZRemRangeByScoreSet(rlSet, WindowStartUnix(now)))]
  /\ Goto(r, "UsageLimit")
  /\ UNCHANGED <<now, globals, usage, rlNow, resp, log, faults>>
  /\ UNCHANGED <<headers, rlCount, cancelled, cfg, meterVars, engineVars, apiVars>>

\* ------------------------------------------------- UsageLimitMiddleware
\* faulty variant: the rate limiter is not on the route
AfterUsageLimit_NoRateLimit == "Handler"

\* the stage c.Next() of UsageLimitMiddleware leads to
AfterUsageLimit == "RateLimit"

\* ratelimit.go 114-127: compare the count with the tier's limit
LimitCheck(r, count) ==
  IF UsageExceeded(tier[r], count)
  THEN Goto(r, "done") /\ Respond(r, 402, "usage_limit_exceeded")
  ELSE Goto(r, AfterUsageLimit) /\ UNCHANGED resp

\* ratelimit.go 89-94: premium tiers skip the usage limit
UsageLimitSkip(r) ==
  /\ pc[r] = "UsageLimit"
  /\ IsPremium(tier[r])
  /\ Goto(r, AfterUsageLimit)
  /\ UNCHANGED <<now, globals, tier, payload, usage, rlNow, resp, log, startUsage, startWindow, faults>>
  /\ UNCHANGED <<headers, rlCount, cancelled, cfg, meterVars, engineVars, apiVars>>

\* ratelimit.go 96-99 with RedisClient.GetCachedUserUsage: GET user:usage:{id}.
\* A miss returns (nil, nil): err is nil, so the database is not consulted and
\* usage.CollisionCount dereferences nil; recover.New() and errorHandler turn
\* the panic into 500 server_error.
GetCachedUserUsage(r) ==
  /\ pc[r] = "UsageLimit"
  /\ ~IsPremium(tier[r])
  /\ \/ /\ Emit(r, "cache_err") /\ Fault
        /\ Goto(r, "GetUserUsage")
        /\ UNCHANGED <<usage, resp>>
     \/ /\ usageCache = NoRow
        /\ UNCHANGED usage
        /\ IF UsageLimits(tier[r]) > 0
           THEN /\ Emit2(r, "cache_miss", "panic") /\ NoFault
                /\ Goto(r, "done")
                /\ Respond(r, 500, "server_error")
           ELSE /\ Emit(r, "cache_miss") /\ NoFault
                /\ Goto(r, AfterUsageLimit)
                /\ UNCHANGED resp
     \/ /\ usageCache # NoRow
        /\ usage' = [usage EXCEPT ![r] = usageCache]
        /\ Emit(r, "cache_hit") /\ NoFault
        /\ LimitCheck(r, usageCache)
  /\ UNCHANGED <<now, globals, tier, payload, rlNow, startUsage, startWindow>>
  /\ UNCHANGED <<headers, rlCount, cancelled, cfg, meterVars, engineVars, apiVars>>

\* faulty variant: a failed database read lets the request through
UsageDbOutcome_FailOpen(dbErr) == "cache"

\* what the middleware does with the result of db.GetUserUsage
UsageDbOutcome(dbErr) == IF dbErr THEN "usage_check_failed" ELSE "cache"

UsageDbFailed(r, ev) ==
  /\ Emit(r, ev)
  /\ UNCHANGED <<usage, usageRow>>
  /\ IF UsageDbOutcome(TRUE) = "usage_check_failed"
     THEN Goto(r, "done") /\ Respond(r, 500, "usage_check_failed")
     ELSE Goto(r, AfterUsageLimit) /\ UNCHANGED resp

\* PostgresDB.GetUserUsage, the SELECT of the current-window row
GetUserUsageSelect(r) ==
  /\ pc[r] = "GetUserUsage"
  /\ \/ UsageDbFailed(r, "db_select_err") /\ Fault
     \/ /\ usageRow # NoRow
        /\ usage' = [usage EXCEPT ![r] = usageRow]
        /\ Emit(r, "db_select") /\ NoFault
        /\ Goto(r, "CacheUserUsage")
        /\ UNCHANGED <<resp, usageRow>>
     \/ /\ usageRow = NoRow
        /\ Emit(r, "db_select") /\ NoFault
        /\ Goto(r, "GetUserUsageInsert")
        /\ UNCHANGED <<resp, usage, usageRow>>
  /\ UNCHANGED <<now, usageCache, rlSet, rlTTL, sessions, tier, payload, rlNow, startUsage, startWindow>>
  /\ UNCHANGED <<headers, rlCount, cancelled, cfg, meterVars, engineVars, apiVars>>

\* PostgresDB.GetUserUsage, the INSERT after sql.ErrNoRows; UNIQUE(user_id,
\* reset_date) rejects it when a concurrent request has created the row
GetUserUsageInsert(r) ==
  /\ pc[r] = "GetUserUsageInsert"
  /\ \/ UsageDbFailed(r, "db_insert_err") /\ Fault
     \/ usageRow # NoRow /\ UsageDbFailed(r, "db_insert_err") /\ NoFault
     \/ /\ usageRow = NoRow
        /\ usageRow' = 0
        /\ usage' = [usage EXCEPT ![r] = 0]
        /\ Emit(r, "db_insert") /\ NoFault
        /\ Goto(r, "CacheUserUsage")
        /\ UNCHANGED resp
  /\ UNCHANGED <<now, usageCache, rlSet, rlTTL, sessions, tier, payload, rlNow, startUsage, startWindow>>
  /\ UNCHANGED <<headers, rlCount, cancelled, cfg, meterVars, engineVars, apiVars>>

\* ratelimit.go 110-111 with RedisClient.CacheUserUsage (error ignored),
\* then the limit check
CacheUserUsage(r) ==
  /\ pc[r] = "CacheUserUsage"
  /\ \/ usageCache' = usage[r] /\ Emit(r, "cache_set") /\ NoFault
     \/ UNCHANGED usageCache /\ Emit(r, "cache_set_err") /\ Fault
  /\ LimitCheck(r, usage[r])
  /\ UNCHANGED <<now, usageRow, rlSet, rlTTL, sessions, tier, payload, usage, rlNow, startUsage, startWindow>>
  /\ UNCHANGED <<headers, rlCount, cancelled, cfg, meterVars, engineVars, apiVars>>

\* ------------------------------------------------- RateLimitMiddleware
\* faulty variant: a cache failure rejects the request
RateLimitNext_FailClosed(allowed, err) ==
  IF err \/ ~allowed THEN "StatusDenied" ELSE "StatusAllowed"

\* ratelimit.go 49-77: what the middleware does with (allowed, err)
RateLimitNext(allowed, err) ==
  IF err THEN "Handler"
  ELSE IF ~allowed THEN "StatusDenied" ELSE "StatusAllowed"

\* ratelimit.go 40-46
RateLimitSkip(r) ==
  /\ pc[r] = "RateLimit"
  /\ SkipPremium /\ IsPremium(tier[r])
  /\ Goto(r, "Handler")
  /\ UNCHANGED <<now, globals, tier, payload, usage, rlNow, resp, log, startUsage, startWindow, faults>>
  /\ UNCHANGED <<headers, rlCount, cancelled, cfg, meterVars, engineVars, apiVars>>

\* CheckRateLimit 150-159: now := time.Now(); ZREMRANGEBYSCORE key 0 windowStart
ZRemRangeByScore(r) ==
  /\ pc[r] = "RateLimit"
  /\ ~(SkipPremium /\ IsPremium(tier[r]))
  /\ rlNow' = [rlNow EXCEPT ![r] = now]
  /\ \/ /\ rlSet' = ZRemRangeByScoreSet(rlSet, WindowStartUnix(now))
        /\ rlTTL' = KeyTTL(rlSet', rlTTL)
        /\ Emit(r, "zrem") /\ NoFault
        /\ Goto(r, "ZCard")
     \/ /\ UNCHANGED <<rlSet, rlTTL>>
        /\ Emit(r, "zrem_err") /\ Fault
        /\ Goto(r, RateLimitNext(FALSE, TRUE))
  /\ UNCHANGED <<now, usageRow, usageCache, sessions, tier, payload, usage, resp, startUsage, startWindow>>
  /\ UNCHANGED <<headers, rlCount, cancelled, cfg, meterVars, engineVars, apiVars>>

\* faulty variant: the entry is added whatever the count
AfterZCard_AddAlways(count, limit) == "ZAdd"

\* CheckRateLimit 167-169: if count >= limit return false, nil; else the ZADD
AfterZCard(count, limit) ==
  IF count >= limit THEN RateLimitNext(FALSE, FALSE) ELSE "ZAdd"

\* CheckRateLimit 161-169: ZCARD and the comparison with the limit
ZCard(r) ==
  /\ pc[r] = "ZCard"
  /\ \/ /\ Emit(r, "zcard") /\ NoFault
        /\ rlCount' = [rlCount EXCEPT ![r] = Cardinality(rlSet)]
        /\ Goto(r, AfterZCard(Cardinality(rlSet), cfg.MaxRequests))
     \/ /\ Emit(r, "zcard_err") /\ Fault
        /\ UNCHANGED rlCount
        /\ Goto(r, RateLimitNext(FALSE, TRUE))
  /\ UNCHANGED <<now, globals, tier, payload, usage, rlNow, resp, startUsage, startWindow>>
  /\ UNCHANGED <<headers, cancelled, cfg, meterVars, engineVars, apiVars>>

\* CheckRateLimit 171-179: ZADD key score=now.Unix() member=now.UnixNano()
ZAdd(r) ==
  /\ pc[r] = "ZAdd"
  /\ \/ /\ rlSet' = rlSet \cup {[member |-> r, score |-> Unix(rlNow[r])]}
        /\ Emit(r, "zadd") /\ NoFault
        /\ Goto(r, "Expire")
     \/ /\ UNCHANGED rlSet
        /\ Emit(r, "zadd_err") /\ Fault
        /\ Goto(r, RateLimitNext(FALSE, TRUE))
  /\ UNCHANGED <<now, usageRow, usageCache, rlTTL, sessions, tier, payload, usage, rlNow, resp, startUsage, startWindow>>
  /\ UNCHANGED <<headers, rlCount, cancelled, cfg, meterVars, engineVars, apiVars>>

\* CheckRateLimit 181-184: EXPIRE key W (result ignored); return true, nil
Expire(r) ==
  /\ pc[r] = "Expire"
  /\ \/ /\ rlTTL' = IF rlSet = {} THEN NoTTL ELSE now + cfg.WindowSeconds * Res
        /\ Emit(r, "expire") /\ NoFault
     \/ /\ UNCHANGED rlTTL
        /\ Emit(r, "expire_err") /\ Fault
  /\ Goto(r, RateLimitNext(TRUE, FALSE))
  /\ UNCHANGED <<now, usageRow, usageCache, rlSet, sessions, tier, payload, usage, rlNow, resp, startUsage, startWindow>>
  /\ UNCHANGED <<headers, rlCount, cancelled, cfg, meterVars, engineVars, apiVars>>

\* GetRateLimitStatus 203-206: remaining := limit - count, floored at 0
StatusRemaining(set) ==
  IF cfg.MaxRequests - Cardinality(set) < 0 THEN 0 ELSE cfg.MaxRequests - Cardinality(set)

\* ZRANGE key 0 0 and ZSCORE: the lowest score of the set
OldestScore(set) == CHOOSE x \in {e.score : e \in set} : \A e \in set : x <= e.score

\* GetRateLimitStatus 208-222: time.Unix(oldest, 0) + W - now, floored at 0;
\* 0 for an empty set (in ticks)
StatusResetTime(set, t) ==
  IF set = {} THEN 0
  ELSE IF (OldestScore(set) + cfg.WindowSeconds) * Res - t < 0 THEN 0
  ELSE (OldestScore(set) + cfg.WindowSeconds) * Res - t

\* ratelimit.go 61 and 74: remaining for a denied request, remaining-1
\* ("-1 for current request") for an allowed one
RemainingHeader(denied, remaining) == IF denied THEN remaining ELSE remaining - 1

\* ratelimit.go 60-62 and 73-75: the three headers; X-RateLimit-Reset is
\* time.Now().Add(resetTime).Unix()
SetHeaders(r, remaining, resetTime) ==
  headers' = [headers EXCEPT ![r] =
     [set |-> TRUE, limit |-> cfg.MaxRequests,
      remaining |-> RemainingHeader(pc[r] = "StatusDenied", remaining),
      reset |-> Unix(now + resetTime), delay |-> resetTime]]

\* ratelimit.go 56-77 with RedisClient.GetRateLimitStatus (error ignored): it
\* evicts with its own time.Now(); a denied request is answered 429, an
\* allowed one goes on to the handler
GetRateLimitStatus(r) ==
  /\ pc[r] \in {"StatusDenied", "StatusAllowed"}
  /\ \/ /\ rlSet' = ZRemRangeByScoreSet(rlSet, WindowStartUnix(now))
        /\ rlTTL' = KeyTTL(rlSet', rlTTL)
        /\ \/ /\ Emit(r, "status") /\ NoFault
              /\ SetHeaders(r, StatusRemaining(rlSet'), StatusResetTime(rlSet', now))
           \/ /\ Emit(r, "status_err") /\ Fault      \* ZCARD fails after the eviction
              /\ SetHeaders(r, 0, 0)
           \/ /\ rlSet' # {}                          \* ZRANGE or ZSCORE fails
              /\ Emit(r, "status_range_err") /\ Fault
              /\ SetHeaders(r, StatusRemaining(rlSet'), 0)
     \/ /\ UNCHANGED <<rlSet, rlTTL>>
        /\ Emit(r, "status_err") /\ Fault
        /\ SetHeaders(r, 0, 0)
  /\ IF pc[r] = "StatusDenied"
     THEN Goto(r, "done") /\ Respond(r, 429, "rate_limit_exceeded")
     ELSE Goto(r, "Handler") /\ UNCHANGED resp
  /\ UNCHANGED <<now, usageRow, usageCache, sessions, tier, payload, usage, rlNow, startUsage, startWindow>>
  /\ UNCHANGED <<rlCount, cancelled, cfg, meterVars, engineVars, apiVars>>

\* ------------------------------------- CollisionHandler.GenerateCollision
\* faulty variant: the usage is incremented without the session being stored first
AfterEngine_IncrementFirst == "IncrementUserUsage"

\* the first effect after the engine (and, for premium tiers, the AI
\* enhancement, whose error is only logged) has produced the result
AfterEngine == "CreateCollisionSession"

\* collision.go 108-109: the usage is incremented for tier == TierFree
AfterSession(t) == IF t = TierFree THEN "IncrementUserUsage" ELSE "Respond"

\* collision.go 56-92: BodyParser, validator.Struct, engine.GenerateCollision
\* (never returns an error), EnhanceCollisionResult for pro/team
ParseValidateGenerate(r) ==
  /\ pc[r] = "Handler"
  /\ IF ~payload[r].wellformed
     THEN Emit(r, "parse") /\ Goto(r, "done") /\ Respond(r, 400, "invalid_request")
     ELSE IF ~validatorStruct(payload[r])
     THEN Emit(r, "validate") /\ Goto(r, "done") /\ Respond(r, 400, "validation_failed")
     ELSE Emit2(r, "validate", "engine") /\ Goto(r, AfterEngine) /\ UNCHANGED resp
  /\ UNCHANGED <<now, globals, tier, payload, usage, rlNow, startUsage, startWindow, faults>>
  /\ UNCHANGED <<headers, rlCount, cancelled, cfg, meterVars, engineVars, apiVars>>

\* faulty variant: a failed session insert or usage increment fails the request
AfterPersistError_Fail(next) == "Fail"

\* collision.go 103-106 and 110-112: the error is printed and the handler
\* goes on to what follows the statement
AfterPersistError(next) == next

\* the handler moves on to stage p; "Respond" is c.JSON(result)
HandlerGoto(r, p) ==
  IF p = "Respond" THEN Goto(r, "done") /\ Respond(r, 200, "CollisionResult")
  ELSE IF p = "Fail" THEN Goto(r, "done") /\ Respond(r, 500, "collision_generation_failed")
  ELSE Goto(r, p) /\ UNCHANGED resp

\* collision.go 94-106 with PostgresDB.CreateCollisionSession: the session id
\* is uuid.New(); an error is only logged
CreateCollisionSession(r) ==
  /\ pc[r] = "CreateCollisionSession"
  /\ \/ /\ sessions' = sessions \cup {r} /\ Emit(r, "session") /\ NoFault
        /\ HandlerGoto(r, AfterSession(tier[r]))
     \/ /\ UNCHANGED sessions /\ Emit(r, "session_err") /\ Fault
        /\ HandlerGoto(r, AfterPersistError(AfterSession(tier[r])))
  /\ UNCHANGED <<now, usageRow, usageCache, rlSet, rlTTL, tier, payload, usage, rlNow, startUsage, startWindow>>
  /\ UNCHANGED <<headers, rlCount, cancelled, cfg, meterVars, engineVars, apiVars>>

\* collision.go 110-112 with PostgresDB.IncrementUserUsage: UPDATE ... SET
\* collision_count = collision_count + 1 on the current-window row (no row
\* matched is no error); an error is only logged
IncrementUserUsage(r) ==
  /\ pc[r] = "IncrementUserUsage"
  /\ \/ /\ usageRow' = IF usageRow = NoRow THEN NoRow ELSE usageRow + 1
        /\ Emit(r, "incr") /\ NoFault
        /\ HandlerGoto(r, "InvalidateUserUsage")
     \/ /\ UNCHANGED usageRow /\ Emit(r, "incr_err") /\ Fault
        /\ HandlerGoto(r, AfterPersistError("InvalidateUserUsage"))
  /\ UNCHANGED <<now, usageCache, rlSet, rlTTL, sessions, tier, payload, usage, rlNow, startUsage, startWindow>>
  /\ UNCHANGED <<headers, rlCount, cancelled, cfg, meterVars, engineVars, apiVars>>

\* collision.go 114-118 with RedisClient.InvalidateUserUsage: DEL
\* user:usage:{id} (error ignored), then c.JSON(result)
InvalidateUserUsage(r) ==
  /\ pc[r] = "InvalidateUserUsage"
  /\ \/ usageCache' = NoRow /\ Emit(r, "inval") /\ NoFault
     \/ UNCHANGED usageCache /\ Emit(r, "inval_err") /\ Fault
  /\ Goto(r, "done")
  /\ Respond(r, 200, "CollisionResult")
  /\ UNCHANGED <<now, usageRow, rlSet, rlTTL, sessions, tier, payload, usage, rlNow, startUsage, startWindow>>
  /\ UNCHANGED <<headers, rlCount, cancelled, cfg, meterVars, engineVars, apiVars>>

\* ---------------------------------------------------------------- time
\* the clock advances; the rate-limit key disappears when its TTL is reached
Tick ==
  /\ now < MaxTime
  /\ now' = now + 1
  /\ IF rlTTL # NoTTL /\ now + 1 >= rlTTL
     THEN rlSet' = {} /\ rlTTL' = NoTTL
     ELSE UNCHANGED <<rlSet, rlTTL>>
  /\ UNCHANGED <<usageRow, usageCache, sessions, pc, tier, payload, usage, rlNow,
                 resp, log, startUsage, startWindow, faults>>
  /\ UNCHANGED <<headers, rlCount, cancelled, cfg, meterVars, engineVars, apiVars>>

\* ------------------------------------------------------- specifications
Step(r) ==
  \/ UsageLimitSkip(r)
  \/ GetCachedUserUsage(r)
  \/ GetUserUsageSelect(r)
  \/ GetUserUsageInsert(r)
  \/ CacheUserUsage(r)
  \/ RateLimitSkip(r)
  \/ ZRemRangeByScore(r)
  \/ ZCard(r)
  \/ ZAdd(r)
  \/ Expire(r)
  \/ GetRateLimitStatus(r)
  \/ ParseValidateGenerate(r)
  \/ CreateCollisionSession(r)
  \/ IncrementUserUsage(r)
  \/ InvalidateUserUsage(r)

\* requests of the principal run concurrently; each carries one of the
\* bodies of KindPayloads
Next ==
  \/ \E r \in Req, t \in Tiers, b \in KindPayloads : Start(r, t, b)
  \/ \E r \in Req : Step(r)
  \/ Tick

Spec == Init /\ [][Next]_vars

\* a request arrives only when no other request is in flight; it carries
\* any of the bodies of Payloads
StartSeq(r, t, b) ==
  /\ \A q \in Req : pc[q] \in {"idle", "done"}
  /\ Start(r, t, b)

NextSeq ==
  \/ \E r \in Req, t \in Tiers, b \in Payloads : StartSeq(r, t, b)
  \/ \E r \in Req : Step(r)
  \/ Tick

SpecSeq == Init /\ [][NextSeq]_vars

\* ---------------------------------------------------------- cancellation
\* The client of an admitted request goes away, or the deadline of the
\* request passes, before the session is inserted.  Nothing of the request
\* observes it: the handler never consults c.Context(), RedisClient carries
\* ctx = context.Background() (NewRedisClient) and PostgresDB runs its
\* statements with db.Exec / db.QueryRow, without a context.  The steps that
\* follow are therefore the same as for a request that is not cancelled.
Cancel(r) ==
  /\ pc[r] \in {"Handler", "CreateCollisionSession"}
  /\ ~cancelled[r]
  /\ cancelled' = [cancelled EXCEPT ![r] = TRUE]
  /\ UNCHANGED <<now, globals, pc, tier, payload, usage, rlNow, rlCount, resp, headers,
                 log, startUsage, startWindow, faults, cfg>>
  /\ UNCHANGED <<meterVars, engineVars, apiVars>>

NextCancel ==
  \/ \E r \in Req, t \in Tiers, b \in KindPayloads : StartSeq(r, t, b)
  \/ \E r \in Req : Step(r)
  \/ \E r \in Req : Cancel(r)
  \/ Tick

SpecCancel == Init /\ [][NextCancel]_vars

\* ------------------------------------- RateLimitMiddleware mounted alone
\* RateLimitMiddleware in front of any handler, with a window of more than a
\* second and a limit above one, for the requests of one client: with a
\* principal in the context or without one.  What c.Next() leads to is not
\* part of it.
KeyWindowSeconds == 2    \* RateLimitConfig.WindowSeconds of this mount
KeyMaxRequests == 2      \* RateLimitConfig.MaxRequests of this mount
KeyMaxTime == 4          \* last clock tick

\* uuid.Parse of the text of an IP address: an address is not a UUID in any
\* of the forms Parse accepts, so the result is (uuid.Nil, error)
uuidParseIP == "uuid.Nil"

\* ratelimit.go 25 and 38-46: GetUserIDFromContext finds the principal
RateLimitIdentified(r, t) ==
  /\ pc[r] = "idle"
  /\ \A q \in Req : q < r => pc[q] # "idle"
  /\ tier' = [tier EXCEPT ![r] = t]
  /\ startWindow' = [startWindow EXCEPT ![r] =
        Cardinality(ZRemRangeByScoreSet(rlSet, WindowStartUnix(now)))]
  /\ Goto(r, "RateLimit")
  /\ UNCHANGED <<now, globals, payload, usage, rlNow, resp, log, startUsage, faults>>
  /\ UNCHANGED <<headers, rlCount, cancelled, cfg, meterVars, engineVars, apiVars>>

\* ratelimit.go 25-36: GetUserIDFromContext fails; the inner userID is
\* uuid.Parse(c.IP()), and the request is answered 429 when it is uuid.Nil
RateLimitUnidentified(r) ==
  /\ pc[r] = "idle"
  /\ \A q \in Req : q < r => pc[q] # "idle"
  /\ Emit(r, "anonymous")
  /\ IF uuidParseIP = "uuid.Nil"
     THEN Goto(r, "done") /\ Respond(r, 429, "rate_limit_exceeded")
     ELSE Goto(r, "RateLimit") /\ UNCHANGED resp
  /\ UNCHANGED <<now, globals, tier, payload, usage, rlNow, startUsage, startWindow, faults>>
  /\ UNCHANGED <<headers, rlCount, cancelled, cfg, meterVars, engineVars, apiVars>>

\* the clock of this mount
TickKey ==
  /\ now < KeyMaxTime
  /\ now' = now + 1
  /\ IF rlTTL # NoTTL /\ now + 1 >= rlTTL
     THEN rlSet' = {} /\ rlTTL' = NoTTL
     ELSE UNCHANGED <<rlSet, rlTTL>>
  /\ UNCHANGED <<usageRow, usageCache, sessions, pc, tier, payload, usage, rlNow,
                 resp, log, startUsage, startWindow, faults>>
  /\ UNCHANGED <<headers, rlCount, cancelled, cfg, meterVars, engineVars, apiVars>>

InitKey ==
  /\ NoRequests
  /\ usageRow = NoRow
  /\ cfg = RateLimitConfig(KeyWindowSeconds, KeyMaxRequests)
  /\ MeterIdle
  /\ EngineIdle
  /\ ApiIdle

NextKey ==
  \/ \E r \in Req, t \in Tiers : RateLimitIdentified(r, t)
  \/ \E r \in Req : RateLimitUnidentified(r)
  \/ \E r \in Req : RateLimitSkip(r)
  \/ \E r \in Req : ZRemRangeByScore(r)
  \/ \E r \in Req : ZCard(r)
  \/ \E r \in Req : ZAdd(r)
  \/ \E r \in Req : Expire(r)
  \/ \E r \in Req : GetRateLimitStatus(r)
  \/ TickKey

SpecKey == InitKey /\ [][NextKey]_vars

TypeOK ==
  /\ now \in 0..MaxTime
  /\ usageRow \in {NoRow} \cup Nat
  /\ usageCache \in {NoRow} \cup Nat
  /\ sessions \subseteq Req
  /\ faults \in 0..MaxFaults
  /\ \A r \in Req : tier[r] \in Tiers /\ payload[r] \in Payloads /\ body[r] \in Bodies

\* ------------------------------------------ the usage meter over the days
\* PostgresDB.GetUserUsage and PostgresDB.IncrementUserUsage on the rows of
\* user_usage of one principal, called one at a time while the days pass.
\* reset_date is a DATE and UNIQUE(user_id, reset_date) holds.
MaxDay == 8              \* last day
MaxReads == 3            \* calls of GetUserUsage in a run
MaxCount == 2            \* highest collision_count a run reaches
WindowDays == 7          \* INTERVAL '7 days'

\* faulty variant: only a row created today is in the window
InWindow_Today(resetDate, day) == resetDate >= day

\* reset_date >= CURRENT_DATE - INTERVAL '7 days'
InWindow(resetDate, day) == resetDate >= day - WindowDays

\* the rows the WHERE clause of both statements matches
CurrentRows == {e \in rows : InWindow(e.reset_date, today)}

\* ORDER BY reset_date DESC LIMIT 1
LatestRow(S) == CHOOSE e \in S : \A f \in S : f.reset_date <= e.reset_date

Observation(e, isNew) ==
  [day |-> today, reset_date |-> e.reset_date, count |-> e.count, created |-> isNew]

\* PostgresDB.GetUserUsage: the SELECT, and on sql.ErrNoRows the INSERT of a
\* row with collision_count 0 and reset_date time.Now()
GetUserUsage ==
  /\ Len(obs) < MaxReads
  /\ IF CurrentRows # {}
     THEN /\ obs' = Append(obs, Observation(LatestRow(CurrentRows), FALSE))
          /\ UNCHANGED rows
     ELSE /\ \A e \in rows : e.reset_date # today
          /\ rows' = rows \cup {[reset_date |-> today, count |-> 0]}
          /\ obs' = Append(obs, Observation([reset_date |-> today, count |-> 0], TRUE))
  /\ UNCHANGED <<today, usageStatus, pipelineVars, engineVars, apiVars>>

\* collision.go 290-294: remaining := limit - usage.CollisionCount, floored at 0
StatusRemainingUsage(limit, used) == IF limit - used < 0 THEN 0 ELSE limit - used

\* CollisionHandler.GetUsageStatus for a principal of tier t: pro and team
\* are answered at once; for the others db.GetUserUsage is called (SELECT,
\* and INSERT on sql.ErrNoRows) and its row reported
GetUsageStatus(t, dbErr) ==
  /\ usageStatus.n < MaxReads
  /\ IF t = TierPro \/ t = TierTeam
     THEN /\ usageStatus' = [n |-> usageStatus.n + 1, code |-> 200, tier |-> t,
                             used |-> 0, limit |-> -1, remaining |-> -1,
                             reset_date |-> -1, unlimited |-> TRUE]
          /\ UNCHANGED <<rows, obs>>
     ELSE IF dbErr
     THEN /\ usageStatus' = [NoStatus EXCEPT !.n = usageStatus.n + 1, !.code = 500,
                                             !.tier = t]
          /\ UNCHANGED <<rows, obs>>
     ELSE /\ Len(obs) < MaxReads
          /\ IF CurrentRows # {}
             THEN /\ obs' = Append(obs, Observation(LatestRow(CurrentRows), FALSE))
                  /\ UNCHANGED rows
             ELSE /\ \A e \in rows : e.reset_date # today
                  /\ rows' = rows \cup {[reset_date |-> today, count |-> 0]}
                  /\ obs' = Append(obs, Observation([reset_date |-> today, count |-> 0], TRUE))
          /\ usageStatus' =
               [n |-> usageStatus.n + 1, code |-> 200, tier |-> t,
                used |-> obs'[Len(obs')].count,
                limit |-> UsageLimits(t),
                remaining |-> StatusRemainingUsage(UsageLimits(t), obs'[Len(obs')].count),
                reset_date |-> obs'[Len(obs')].reset_date,
                unlimited |-> FALSE]
  /\ UNCHANGED <<today, pipelineVars, engineVars, apiVars>>

\* PostgresDB.IncrementUserUsage: UPDATE ... SET collision_count =
\* collision_count + 1 on every row the WHERE clause matches
IncrementUserUsageRows ==
  /\ CurrentRows # {}
  /\ \A e \in CurrentRows : e.count < MaxCount
  /\ rows' = {IF e \in CurrentRows THEN [e EXCEPT !.count = @ + 1] ELSE e : e \in rows}
  /\ UNCHANGED <<today, obs, usageStatus, pipelineVars, engineVars, apiVars>>

\* midnight
NextDay ==
  /\ today < MaxDay
  /\ today' = today + 1
  /\ UNCHANGED <<rows, obs, usageStatus, pipelineVars, engineVars, apiVars>>

\* no request is in the pipeline
PipelineIdle == PipelineInit /\ usageRow = NoRow

InitMeter ==
  /\ PipelineIdle
  /\ MeterIdle
  /\ EngineIdle
  /\ ApiIdle

NextMeter ==
  \/ GetUserUsage
  \/ IncrementUserUsageRows
  \/ NextDay
  \/ \E t \in Tiers, dbErr \in BOOLEAN : GetUsageStatus(t, dbErr)

SpecMeter == InitMeter /\ [][NextMeter]_vars

\* ------------------------------------------------- the collision engine
\* CollisionEngine.GenerateCollision and AIService.EnhanceCollisionResult as
\* GenerateCollision of the handler calls them, on the catalog of the
\* engine's own tests.  A text is the set of its lower-case words, and an
\* interest is one word, so strings.Contains is membership.
MaxCatalog == 3          \* domains of the catalog
MaxInterests == 2        \* interests of a request
MaxLines == 2            \* lines of an LLM answer

DomainNames == {"Biomimicry", "Jazz Improvisation", "Quantum Physics"}
Words == {"nature", "quantum", "innovation"}
Intensities == {"gentle", "moderate", "radical"}
Sentinel == "Innovation"

\* SetupTest: the domains of the catalog
Domain(n) ==
  CASE n = "Biomimicry" ->
         [name |-> {"biomimicry"}, category |-> {"nature"},
          description |-> {"how", "nature", "solves", "problems"},
          keywords |-> {"evolution", "adaptation", "efficiency"},
          intensity |-> {"gentle", "moderate"}, examples |-> 0]
    [] n = "Jazz Improvisation" ->
         [name |-> {"jazz", "improvisation"}, category |-> {"music"},
          description |-> {"spontaneous", "creation", "and", "structured", "freedom"},
          keywords |-> {"improvisation", "spontaneity", "collaboration"},
          intensity |-> {"moderate", "radical"}, examples |-> 0]
    [] n = "Quantum Physics" ->
         [name |-> {"quantum", "physics"}, category |-> {"science"},
          description |-> {"counterintuitive", "principles", "of", "reality"},
          keywords |-> {"uncertainty", "entanglement", "superposition"},
          intensity |-> {"radical"}, examples |-> 0]
    \* the sentinel of selectWithRandomness: no keywords, no intensities
    [] OTHER ->
         [name |-> {"innovation"}, category |-> {"general"},
          description |-> {"general", "innovative", "thinking"},
          keywords |-> {}, intensity |-> {}, examples |-> 0]

\* strings.Title of an interest
Title(w) ==
  CASE w = "nature" -> "Nature"
    [] w = "quantum" -> "Quantum"
    [] w = "innovation" -> "Innovation"

SeqsUpTo(S, n) == UNION {[1..k -> S] : k \in 0..n}
Range(f) == {f[i] : i \in DOMAIN f}
Min(a, b) == IF a < b THEN a ELSE b

\* the catalogs: domain names in some order, none twice
Catalogs == {c \in SeqsUpTo(DomainNames, MaxCatalog) : Cardinality(Range(c)) = Len(c)}

\* calculateInterestRelevance, the score of one interest, in half points:
\* name 3, category 2, each keyword 1, description 0.5, capped at 3
InterestScore(w, d) ==
  Min(6, (IF w \in d.name THEN 6 ELSE 0) + (IF w \in d.category THEN 4 ELSE 0)
         + 2 * Cardinality({k \in d.keywords : k = w})
         + (IF w \in d.description THEN 1 ELSE 0))

RECURSIVE SumScores(_, _, _)
SumScores(interests, d, i) ==
  IF i > Len(interests) THEN 0
  ELSE InterestScore(interests[i], d) + SumScores(interests, d, i + 1)

\* calculateInterestRelevance: score / totalPossible; totalPossible is 3 per
\* interest, the same for every domain, so the sum of the half points stands
\* for the quotient
calculateInterestRelevance(interests, d) ==
  IF Len(interests) = 0 THEN 0 ELSE SumScores(interests, d, 1)

\* the loop of selectPrimaryDomain from domain i on: the first domain with
\* the highest score above 0
RECURSIVE BestMatch(_, _, _, _, _)
BestMatch(cat, interests, i, bestMatch, highestScore) ==
  IF i > Len(cat) THEN bestMatch
  ELSE LET score == calculateInterestRelevance(interests, Domain(cat[i]))
       IN  IF score > highestScore
           THEN BestMatch(cat, interests, i + 1, cat[i], score)
           ELSE BestMatch(cat, interests, i + 1, bestMatch, highestScore)

selectPrimaryDomain(cat, interests) ==
  IF Len(interests) = 0 THEN "General Innovation"
  ELSE LET bestMatch == BestMatch(cat, interests, 1, "", 0)
       IN  IF bestMatch = "" THEN Title(interests[1]) ELSE bestMatch

\* faulty variant: every domain suits every intensity
isIntensityCompatible_Any(d, intensity) == TRUE

isIntensityCompatible(d, intensity) == intensity \in d.intensity

\* faulty variant: the primary domain stays among the candidates
IsCandidate_KeepPrimary(n, intensity, primaryDomain) ==
  isIntensityCompatible(Domain(n), intensity)

\* the two tests of the loop of filterCandidateDomains
IsCandidate(n, intensity, primaryDomain) ==
  n # primaryDomain /\ isIntensityCompatible(Domain(n), intensity)

filterCandidateDomains(cat, intensity, primaryDomain) ==
  SelectSeq(cat, LAMBDA n : IsCandidate(n, intensity, primaryDomain))

\* faulty variant: gentle draws from the default pool
PoolSize_Default(intensity) == IF intensity = "radical" THEN 8 ELSE 5

\* poolSizes of selectWithRandomness
PoolSize(intensity) ==
  CASE intensity = "gentle" -> 3
    [] intensity = "moderate" -> 5
    [] intensity = "radical" -> 8

\* the orders sort.Slice can leave the matches in: OverallScore depends on
\* the project text, which is free
Orderings(cands) == {m \in [DOMAIN cands -> Range(cands)] : Range(m) = Range(cands)}

\* selectWithRandomness: the sentinel when there is no match, else any match
\* of the pool (every weight is positive)
selectWithRandomness(matches, intensity) ==
  IF Len(matches) = 0 THEN {Sentinel}
  ELSE {matches[i] : i \in 1..Min(PoolSize(intensity), Len(matches))}

Templates(n) == [i \in 1..n |-> "template"]

\* generateSparkQuestions: 3 questions, and one more from a keyword
generateSparkQuestions(d) == Templates(IF d.keywords # {} THEN 4 ELSE 3)

\* adaptExamples: one per example of the domain
adaptExamples(d) == Templates(d.examples)

\* generateNextSteps: 4 steps, and one more for radical
generateNextSteps(intensity) == Templates(IF intensity = "radical" THEN 5 ELSE 4)

\* CollisionEngine.GenerateCollision for the chosen collision domain: the
\* error it returns is always nil
EngineResult(primaryDomain, collisionDomain, intensity) ==
  [primary_domain |-> primaryDomain,
   collision_domain |-> collisionDomain,
   connection |-> "template",
   spark_questions |-> generateSparkQuestions(Domain(collisionDomain)),
   examples |-> adaptExamples(Domain(collisionDomain)),
   next_steps |-> generateNextSteps(intensity),
   error |-> FALSE]

\* findDomainByName(name) != nil
findDomainByName(cat, name) == \E i \in DOMAIN cat : cat[i] = name

\* collision.go 74-92: engine.GenerateCollision; 500 on an error; the
\* enhancement for pro and team when the collision domain is in the catalog
GenerateCollision ==
  /\ epc = "start"
  /\ LET primaryDomain == selectPrimaryDomain(catalog, input.interests)
         candidates == filterCandidateDomains(catalog, input.intensity, primaryDomain)
     IN  \E matches \in Orderings(candidates) :
           \E selected \in selectWithRandomness(matches, input.intensity) :
             /\ template' = EngineResult(primaryDomain, selected, input.intensity)
             /\ result' = template'
             /\ epc' = IF template'.error THEN "failed"
                       ELSE IF premium /\ findDomainByName(catalog, selected)
                       THEN "Connection" ELSE "Respond"
  /\ UNCHANGED <<catalog, input, premium, llm, stored, scored, ranked, picked,
                 pipelineVars, meterVars, apiVars>>

\* the lines an LLM answer is made of, and what parseNumberedList finds in
\* one: the number of its "N." prefix and the trimmed text after it
Lines == {"1. a", "2.", "4. a"}
NumberOf(line) == CASE line = "1. a" -> 1 [] line = "2." -> 2 [] line = "4. a" -> 4
ItemOf(line) == IF line = "2." THEN "" ELSE "a"

\* parseNumberedList: the items of the lines that begin "i." for an i in
\* 1..expectedCount and have text after it
parseNumberedList(content, expectedCount) ==
  LET kept == SelectSeq(content, LAMBDA l : NumberOf(l) \in 1..expectedCount /\ ItemOf(l) # "")
  IN  [i \in DOMAIN kept |-> ItemOf(kept[i])]

\* strings.TrimSpace of the answers to the connection prompt
TrimSpace(c) == IF c = " " THEN "" ELSE c

\* what CreateChatCompletion can come back with: an API error, the deadline
\* of the call, no choice, or a choice with some content
LlmFailures == {"error", "timeout", "nochoice"}
ConnAnswers == {[kind |-> k, content |-> ""] : k \in LlmFailures}
               \cup {[kind |-> "ok", content |-> c] : c \in {"", " ", "llm"}}
ListAnswers == {[kind |-> k, content |-> <<>>] : k \in LlmFailures}
               \cup {[kind |-> "ok", content |-> c] : c \in SeqsUpTo(Lines, MaxLines)}

\* generateEnhancedConnection: (TrimSpace(content), nil) or ("", err)
ConnCall(ans) ==
  IF ans.kind # "ok" THEN [value |-> "", err |-> TRUE]
  ELSE [value |-> TrimSpace(ans.content), err |-> FALSE]

\* generateAdvancedSparkQuestions, generateContextualExamples and
\* generateAdvancedNextSteps: (parsed list, nil) or (nil, err)
ListCall(ans, expectedCount) ==
  IF ans.kind # "ok" THEN [value |-> <<>>, err |-> TRUE]
  ELSE [value |-> parseNumberedList(ans.content, expectedCount), err |-> FALSE]

\* how a call ended, as the caller of the LLM sees it
ConnOutcome(ans) ==
  IF ans.kind \in {"error", "timeout"} THEN ans.kind
  ELSE IF ans.kind = "nochoice" \/ ans.content \in {"", " "} THEN "empty"
  ELSE "usable"

ListOutcome(ans, expectedCount) ==
  IF ans.kind \in {"error", "timeout"} THEN ans.kind
  ELSE IF ans.kind = "nochoice" \/ ans.content = <<>> THEN "empty"
  ELSE IF \A i \in DOMAIN ans.content :
            NumberOf(ans.content[i]) > expectedCount \/ ans.content[i] = "2."
       THEN "noitem"
  ELSE "usable"

\* faulty variant: the first failed call ends the enhancement
AfterEnhanceCall_Abort(err, next) == IF err THEN "Respond" ELSE next

\* EnhanceCollisionResult goes on to the next call whatever the call returned
AfterEnhanceCall(err, next) == next

\* one call of EnhanceCollisionResult: the field is replaced if err == nil
\* and the value is not empty
EnhanceStep(field, call, empty, outcome, next) ==
  /\ result' = IF ~call.err /\ call.value # empty
               THEN [result EXCEPT ![field] = call.value] ELSE result
  /\ llm' = Append(llm, [field |-> field, outcome |-> outcome])
  /\ epc' = AfterEnhanceCall(call.err, next)
  /\ UNCHANGED <<catalog, input, premium, template, stored, scored, ranked, picked,
                 pipelineVars, meterVars, apiVars>>

generateEnhancedConnection ==
  /\ epc = "Connection"
  /\ \E ans \in ConnAnswers :
       EnhanceStep("connection", ConnCall(ans), "", ConnOutcome(ans), "SparkQuestions")

generateAdvancedSparkQuestions ==
  /\ epc = "SparkQuestions"
  /\ \E ans \in ListAnswers :
       EnhanceStep("spark_questions", ListCall(ans, 4), <<>>, ListOutcome(ans, 4), "Examples")

generateContextualExamples ==
  /\ epc = "Examples"
  /\ \E ans \in ListAnswers :
       EnhanceStep("examples", ListCall(ans, 3), <<>>, ListOutcome(ans, 3), "NextSteps")

generateAdvancedNextSteps ==
  /\ epc = "NextSteps"
  /\ \E ans \in ListAnswers :
       EnhanceStep("next_steps", ListCall(ans, 4), <<>>, ListOutcome(ans, 4), "Respond")

\* faulty variant: the session holds the result as the engine returned it
SessionResult_BeforeEnhance(engineResult, handlerResult) == engineResult

\* collision.go 95-100: CollisionResult: *result, the result the handler
\* holds once the enhancement is over
SessionResult(engineResult, handlerResult) == handlerResult

\* collision.go 94-118: the session with a copy of the result is inserted
\* (a failed insert is only logged), the usage is incremented, then
\* c.JSON(result)
RespondResult ==
  /\ epc = "Respond"
  /\ stored' \in {SessionResult(template, result), NoResult}
  /\ epc' = "done"
  /\ UNCHANGED <<catalog, input, premium, template, result, llm, scored, ranked, picked, pipelineVars, meterVars, apiVars>>

InitEngine ==
  /\ PipelineIdle
  /\ MeterIdle
  /\ ApiIdle
  /\ catalog \in Catalogs
  /\ input \in [interests : SeqsUpTo(Words, MaxInterests), intensity : Intensities]
  /\ premium \in BOOLEAN
  /\ template = NoResult
  /\ result = NoResult
  /\ llm = <<>>
  /\ stored = NoResult
  /\ epc = "start"
  /\ scored = <<>>
  /\ ranked = <<>>
  /\ picked = NoMatch

NextEngine ==
  \/ GenerateCollision
  \/ generateEnhancedConnection
  \/ generateAdvancedSparkQuestions
  \/ generateContextualExamples
  \/ generateAdvancedNextSteps
  \/ RespondResult

SpecEngine == InitEngine /\ [][NextEngine]_vars

\* ------------------------------------------- the choice among the matches
\* selectCollisionDomain from the scoring on: the candidates that
\* filterCandidateDomains left are scored, sorted by OverallScore and one of
\* the pool is drawn.  A candidate is known by its number; its relevance and
\* novelty (in tenths) depend on the project text and on the interests, which
\* are free, so that they are inputs of the run.
MaxCandidates == 9       \* candidates of a run

\* a domain the project is about and one that is new to the principal
Profiles == {[relevance |-> 10, novelty |-> 2], [relevance |-> 0, novelty |-> 10]}

\* weights of calculateAntiEchoChamberScore, in tenths
EchoWeights(intensity) ==
  CASE intensity = "gentle" -> <<6, 4>>
    [] intensity = "moderate" -> <<4, 6>>
    [] intensity = "radical" -> <<2, 8>>

\* relevance*weight[0] + novelty*weight[1], in hundredths
calculateAntiEchoChamberScore(relevance, novelty, intensity) ==
  relevance * EchoWeights(intensity)[1] + novelty * EchoWeights(intensity)[2]

\* the DomainMatch of candidate i
DomainMatch(i, profile, intensity) ==
  [Domain |-> i, RelevanceScore |-> profile.relevance, NoveltyScore |-> profile.novelty,
   OverallScore |-> calculateAntiEchoChamberScore(profile.relevance, profile.novelty,
                                                     intensity)]

\* one round of the insertion sort: m moves left while its OverallScore is
\* greater than that of its left neighbour
InsertMatch(sorted, m) ==
  LET k == Cardinality({i \in DOMAIN sorted : sorted[i].OverallScore >= m.OverallScore})
  IN  SubSeq(sorted, 1, k) \o <<m>> \o SubSeq(sorted, k + 1, Len(sorted))

\* sort.Slice(matches, OverallScore descending): slices of at most 12
\* elements are sorted by insertion (Go 1.22+)
RECURSIVE sortSlice(_, _)
sortSlice(ms, n) ==
  IF n = 0 THEN <<>> ELSE InsertMatch(sortSlice(ms, n - 1), ms[n])

\* the fallback of selectWithRandomness: the domain "Innovation", which is
\* not in the catalog (its number is 0)
FallbackMatch == [Domain |-> 0, RelevanceScore |-> 0, NoveltyScore |-> 0, OverallScore |-> 0]

\* selectCollisionDomain: scoring, sort.Slice and selectWithRandomness
selectCollisionDomain ==
  /\ epc = "select"
  /\ ranked' = sortSlice(scored, Len(scored))
  /\ picked' \in (IF Len(ranked') = 0 THEN {FallbackMatch}
                    ELSE selectWithRandomness(ranked', input.intensity))
  /\ epc' = "selected"
  /\ UNCHANGED <<catalog, input, premium, template, result, llm, stored, scored,
                 pipelineVars, meterVars, apiVars>>

InitSelect ==
  /\ PipelineIdle
  /\ MeterIdle
  /\ ApiIdle
  /\ catalog = <<>>
  /\ input \in [interests : {<<>>}, intensity : Intensities]
  /\ premium = FALSE
  /\ template = NoResult
  /\ result = NoResult
  /\ llm = <<>>
  /\ stored = NoResult
  /\ epc = "select"
  /\ \E n \in 0..MaxCandidates :
       \E profile \in [1..n -> Profiles] :
         scored = [i \in 1..n |-> DomainMatch(i, profile[i], input.intensity)]
  /\ ranked = <<>>
  /\ picked = NoMatch

NextSelect == selectCollisionDomain

SpecSelect == InitSelect /\ [][NextSelect]_vars

\* ------------------------------------- the session and the domain routes
\* GET /collisions/history, PUT /collisions/:id/rate and GET /domains/premium
\* for two principals, one call at a time, with the statements of
\* PostgresDB they issue.  A session id is the number of the row; created_at
\* is time.Now() of the insert, later for every later row.
MaxCalls == 3            \* calls in a run
DefaultLimit == 20       \* c.Query("limit", "20") and the fallback of the handler
MaxLimit == 100          \* limit > 100 falls back
Users == {"u1", "u2"}
NoRating == 0            \* user_rating IS NULL
NoNotes == "null"        \* exploration_notes IS NULL / notes omitted
BadUUID == -1            \* an :id that uuid.Parse rejects

\* the row CreateCollisionSession inserts: rating and notes are NULL
SessionRow(id, u) ==
  [id |-> id, user_id |-> u, created_at |-> id,
   input_data |-> <<"input", id>>, collision_result |-> <<"result", id>>,
   user_rating |-> NoRating, exploration_notes |-> NoNotes]

\* the tables a run starts from: empty, or DefaultLimit + 1 sessions of u1
InitTables == {{}, {SessionRow(i, "u1") : i \in 1..(DefaultLimit + 1)}}

\* ids of the :id parameter: malformed, the first session, an id past those
\* the initial table holds
RateIds == {BadUUID, 1, DefaultLimit + 2}

\* bodies of PUT /collisions/:id/rate
RateBodies ==
  {[wellformed |-> FALSE, rating |-> 0, notes |-> NoNotes],
   [wellformed |-> TRUE, rating |-> 0, notes |-> NoNotes],
   [wellformed |-> TRUE, rating |-> 6, notes |-> "a"],
   [wellformed |-> TRUE, rating |-> 1, notes |-> "a"],
   [wellformed |-> TRUE, rating |-> 5, notes |-> "a"],
   [wellformed |-> TRUE, rating |-> 5, notes |-> NoNotes]}

\* values of the limit query parameter: text, and what strconv.Atoi makes
\* of it (int is FALSE when Atoi returns an error)
NoQuery == [text |-> "", int |-> FALSE, value |-> 0]
LimitQueries ==
  {NoQuery,
   [text |-> "abc", int |-> FALSE, value |-> 0],
   [text |-> "0", int |-> TRUE, value |-> 0],
   [text |-> "1", int |-> TRUE, value |-> 1],
   [text |-> "100", int |-> TRUE, value |-> 100],
   [text |-> "101", int |-> TRUE, value |-> 101]}

\* c.Query("limit", "20"): the default for a missing or empty parameter
QueryLimit(q) ==
  IF q.text = "" THEN [text |-> "20", int |-> TRUE, value |-> DefaultLimit] ELSE q

\* faulty variant: the parsed value is used without the range check
HistoryLimit_Unchecked(q) ==
  IF QueryLimit(q).int THEN QueryLimit(q).value ELSE DefaultLimit

\* collision.go 129-133: Atoi, and 20 on an error or a value outside 1..100
HistoryLimit(q) ==
  IF ~QueryLimit(q).int \/ QueryLimit(q).value < 1 \/ QueryLimit(q).value > MaxLimit
  THEN DefaultLimit
  ELSE QueryLimit(q).value

\* ORDER BY created_at DESC LIMIT n over the rows of S
RECURSIVE TakeNewest(_, _)
TakeNewest(S, n) ==
  IF n = 0 \/ S = {} THEN <<>>
  ELSE LET e == CHOOSE x \in S : \A y \in S : y.created_at <= x.created_at
       IN <<e>> \o TakeNewest(S \ {e}, n - 1)

\* PostgresDB.GetUserCollisionHistory: WHERE user_id = $1 ORDER BY
\* created_at DESC LIMIT $2
GetUserCollisionHistory(T, u, n) == TakeNewest({e \in T : e.user_id = u}, n)

\* faulty variant: the rating is only required to be present
RateRequestValid_Required(b) == b.rating # 0

\* validate:"required,min=1,max=5" on RateRequest.Rating; Notes is free
RateRequestValid(b) == b.rating # 0 /\ b.rating >= 1 /\ b.rating <= 5

\* faulty variant: omitted notes keep the stored ones
RateUpdate_KeepNotes(T, id, u, b) ==
  {IF e.id = id /\ e.user_id = u
   THEN [e EXCEPT !.user_rating = b.rating,
                  !.exploration_notes = IF b.notes = NoNotes THEN @ ELSE b.notes]
   ELSE e : e \in T}

\* PostgresDB.RateCollision: UPDATE collision_sessions SET user_rating = $1,
\* exploration_notes = $2 WHERE id = $3 AND user_id = $4
RateUpdate(T, id, u, b) ==
  {IF e.id = id /\ e.user_id = u
   THEN [e EXCEPT !.user_rating = b.rating, !.exploration_notes = b.notes]
   ELSE e : e \in T}

\* the collision_domains table: the domains of the catalog with their tier
DomainTier(n) == IF n = "Quantum Physics" THEN "premium" ELSE "basic"

\* PostgresDB.GetCollisionDomains: WHERE tier = $1 OR tier = 'basic'
GetCollisionDomains(t) ==
  {n \in DomainNames : DomainTier(n) = t \/ DomainTier(n) = "basic"}

\* a call and its response; owned and changed record what the statement of
\* the call met and did, result_id is the id in the body of a generation's
\* response (0 for the other calls) and down the components a health check
\* found unavailable
Call(op, u, t, id, b, q, code, err, rws, doms, owned, changed) ==
  [op |-> op, user |-> u, tier |-> t, id |-> id, body |-> b, limit |-> q,
   code |-> code, error |-> err, rows |-> rws, domains |-> doms,
   owned |-> owned, changed |-> changed, result_id |-> 0, down |-> {}]

\* CollisionResult.ID: uuid.New().String() of CollisionEngine.GenerateCollision,
\* a UUID drawn apart from that of the session and therefore none of the
\* session ids; the negative numbers below BadUUID stand for these UUIDs
ResultID(sessionId) == BadUUID - sessionId

NoBody == [wellformed |-> TRUE, rating |-> 0, notes |-> NoNotes]

\* collision.go 94-118 with PostgresDB.CreateCollisionSession for a
\* generation of principal u: the session gets ID: uuid.New() and the row is
\* inserted unless the statement fails; the response is c.JSON(result), whose
\* id is the ID the engine gave the result
CreateCollisionSessionRow(u, dbErr) ==
  /\ Len(calls) < MaxCalls
  /\ LET id == Cardinality(table) + 1 IN
       /\ table' = IF dbErr THEN table ELSE table \cup {SessionRow(id, u)}
       /\ calls' = Append(calls,
            [Call("generate", u, TierFree, id, NoBody, NoQuery,
                  200, "none", <<>>, {}, ~dbErr, ~dbErr)
               EXCEPT !.result_id = ResultID(id)])
  /\ UNCHANGED <<domainCache, pipelineVars, meterVars, engineVars>>

\* CollisionHandler.RateCollision
RateCollision(u, id, b, dbErr) ==
  /\ Len(calls) < MaxCalls
  /\ LET owned == \E e \in table : e.id = id /\ e.user_id = u
         answer(code, err, T) ==
           /\ table' = T
           /\ calls' = Append(calls, Call("rate", u, TierFree, id, b, NoQuery,
                                          code, err, <<>>, {}, owned, T # table))
     IN IF id = BadUUID THEN answer(400, "invalid_session_id", table)
        ELSE IF ~b.wellformed THEN answer(400, "invalid_request", table)
        ELSE IF ~RateRequestValid(b) THEN answer(400, "validation_failed", table)
        ELSE IF dbErr THEN answer(500, "rating_failed", table)
        ELSE answer(200, "none", RateUpdate(table, id, u, b))
  /\ UNCHANGED <<domainCache, pipelineVars, meterVars, engineVars>>

\* the principal of generation k rates it under the id of its response body
RateGenerated(k) ==
  /\ calls[k].op = "generate"
  /\ RateCollision(calls[k].user, calls[k].result_id,
                   [wellformed |-> TRUE, rating |-> 5, notes |-> "a"], FALSE)

\* CollisionHandler.GetCollisionHistory
GetCollisionHistory(u, q, dbErr) ==
  /\ Len(calls) < MaxCalls
  /\ calls' = Append(calls,
       IF dbErr
       THEN Call("history", u, TierFree, 0, NoBody, q, 500, "database_error",
                 <<>>, {}, FALSE, FALSE)
       ELSE Call("history", u, TierFree, 0, NoBody, q, 200, "none",
                 GetUserCollisionHistory(table, u, HistoryLimit(q)), {}, FALSE, FALSE))
  /\ UNCHANGED <<table, domainCache, pipelineVars, meterVars, engineVars>>

\* RequirePremium and CollisionHandler.GetPremiumDomains for a principal of
\* tier t: the cache first (a failed GET is treated as a miss), then the
\* database, whose result is cached (a failed SET is ignored)
GetPremiumDomains(t, cacheErr, dbErr) ==
  /\ Len(calls) < MaxCalls
  /\ LET answer(code, err, doms) ==
           calls' = Append(calls, Call("premium_domains", "u1", t, 0, NoBody, NoQuery,
                                       code, err, <<>>, doms, FALSE, FALSE))
     IN IF t # TierPro /\ t # TierTeam
        THEN answer(402, "premium_required", {}) /\ UNCHANGED domainCache
        ELSE IF ~cacheErr /\ domainCache.present
        THEN answer(200, "none", domainCache.domains) /\ UNCHANGED domainCache
        ELSE IF dbErr
        THEN answer(500, "database_error", {}) /\ UNCHANGED domainCache
        ELSE /\ answer(200, "none", GetCollisionDomains("premium"))
             /\ domainCache' = IF cacheErr THEN domainCache
                               ELSE [present |-> TRUE,
                                     domains |-> GetCollisionDomains("premium")]
  /\ UNCHANGED <<table, pipelineVars, meterVars, engineVars>>

\* the components HealthCheck looks at
Components == {"database", "cache", "ai_service", "collision_engine"}

\* collision.go 323-357: status["status"] after the four checks in their
\* order, each assignment overwriting the one before
HealthStatus(down) ==
  LET afterDb == IF "database" \in down THEN "unhealthy" ELSE "healthy"
      afterCache == IF "cache" \in down THEN "degraded" ELSE afterDb
      afterAI == IF "ai_service" \in down THEN "degraded" ELSE afterCache
  IN  IF "collision_engine" \in down THEN "unhealthy" ELSE afterAI

\* collision.go 359-362: 503 for "unhealthy", else 200
HealthStatusCode(status) == IF status = "unhealthy" THEN 503 ELSE 200

\* CollisionHandler.HealthCheck with h.db or h.engine nil, Ping or
\* CheckConnection failing for the components of down; the route carries no
\* authentication
HealthCheck(down) ==
  /\ Len(calls) < MaxCalls
  /\ calls' = Append(calls,
       [Call("health", "u1", TierFree, 0, NoBody, NoQuery,
             HealthStatusCode(HealthStatus(down)), HealthStatus(down),
             <<>>, {}, FALSE, FALSE)
          EXCEPT !.down = down])
  /\ UNCHANGED <<table, domainCache, pipelineVars, meterVars, engineVars>>

InitApi ==
  /\ PipelineIdle
  /\ MeterIdle
  /\ EngineIdle
  /\ table \in InitTables
  /\ domainCache = NoCache
  /\ calls = <<>>

NextApi ==
  \/ \E u \in Users, dbErr \in BOOLEAN : CreateCollisionSessionRow(u, dbErr)
  \/ \E u \in Users, id \in RateIds, b \in RateBodies : RateCollision(u, id, b, FALSE)
  \/ \E u \in Users : RateCollision(u, 1, [wellformed |-> TRUE, rating |-> 5, notes |-> "a"], TRUE)
  \/ \E k \in DOMAIN calls : RateGenerated(k)
  \/ \E u \in Users, q \in LimitQueries : GetCollisionHistory(u, q, FALSE)
  \/ \E u \in Users : GetCollisionHistory(u, NoQuery, TRUE)
  \/ \E t \in Tiers, cacheErr \in BOOLEAN : GetPremiumDomains(t, cacheErr, FALSE)
  \/ GetPremiumDomains(TierPro, FALSE, TRUE)
  \/ \E down \in SUBSET Components : HealthCheck(down)

SpecApi == InitApi /\ [][NextApi]_vars

\* ------------------------------------------------------ events of a request
QuotaEv == {"cache_hit", "cache_miss", "cache_err", "db_select", "db_select_err",
            "db_insert", "db_insert_err"}
CacheSetEv == {"cache_set", "cache_set_err"}
RateErrEv == {"zrem_err", "zcard_err", "zadd_err", "expire_err"}
RateEv == {"zrem", "zcard", "zadd", "expire"} \cup RateErrEv
StatusEv == {"status", "status_err", "status_range_err"}
HandlerEv == {"parse", "validate", "engine"}
SessionEv == {"session", "session_err"}
IncrEv == {"incr", "incr_err"}
InvalEv == {"inval", "inval_err"}

Done(r) == pc[r] = "done"
\* the requests CheckRateLimit has admitted (added to the window) without a
\* failing cache command
Admitted == {q \in Req : Has(q, "zadd") /\ ~HasAny(q, RateErrEv)}

\* ------------------------------------------------------------------ C1
\* C1 (as stated): with no failing cache command or database statement, a
\* valid generation of a free principal whose durable usage is below 5 and
\* whose window holds fewer than L entries is answered 200 and leaves the
\* durable usage exactly one higher (requests one at a time); two of them
\* from usage 0 leave usage 2.
C1_FreeGenerationCountsOnce ==
  \A r \in Req :
    ( /\ Done(r)
      /\ \A q \in Req : q > r => pc[q] = "idle"
      /\ faults = 0
      /\ tier[r] = TierFree
      /\ body[r] = "valid"
      /\ startUsage[r] < FreeLimit
      /\ startWindow[r] < MaxRequests )
    => /\ resp[r] = Response(200, "CollisionResult")
       /\ usageRow = startUsage[r] + 1

C3_WindowDeniesExcess ==
  \A r \in Req :
    (pc[r] = "Expire" /\ now = rlNow[r] /\ ~HasAny(r, RateErrEv))
    => Cardinality({q \in Admitted \ {r} :
                      rlNow[q] <= rlNow[r] /\
                      rlNow[r] - rlNow[q] < WindowSeconds * Res}) < MaxRequests

\* ------------------------------------------------------------------ C4
\* C4 (as stated): under any interleaving of the cache commands of concurrent
\* checks, no more than L requests that read the same clock value are
\* admitted.
C4_ConcurrentChecksLinearizable ==
  \A t \in 0..MaxTime :
    Cardinality({q \in Admitted : rlNow[q] = t}) <= MaxRequests

\* ------------------------------------------------------------------ C5
\* C5: a request for which a cache command of CheckRateLimit failed is passed
\* on to the handler and is never answered 429.
C5_RateLimitFailsOpen ==
  \A r \in Req :
    HasAny(r, RateErrEv)
    => /\ pc[r] \in {"StatusAllowed", "Handler", "CreateCollisionSession",
                     "IncrementUserUsage", "InvalidateUserUsage", "done"}
       /\ Done(r) => HasAny(r, HandlerEv)
       /\ resp[r].code # 429

C5_Witness ==
  \E r \in Req :
    /\ Done(r) /\ HasAny(r, {"zrem_err", "zcard_err", "zadd_err"})
    /\ resp[r].code = 200

\* ------------------------------------------------------------------ C6
\* C6 (as stated): a free request whose usage-cache read is a miss reads the
\* user_usage row from the database (and is not answered before it did).
C6_MissReadsDatabase ==
  \A r \in Req :
    (Has(r, "cache_miss") /\ Done(r))
    => /\ HasAny(r, {"db_select", "db_select_err"})
       /\ ~Has(r, "panic")

\* ------------------------------------------------------------------ C7
\* C7: a free request whose usage-cache read failed reads the counter from
\* the database; if GetUserUsage fails too it is answered 500
\* usage_check_failed and neither the rate limiter nor the handler runs.
C7_CacheErrorFallsThrough ==
  \A r \in Req :
    Has(r, "cache_err")
    => /\ pc[r] = "GetUserUsage" \/ HasAny(r, {"db_select", "db_select_err"})
       /\ HasAny(r, {"db_select_err", "db_insert_err"})
          => /\ Done(r)
             /\ resp[r] = Response(500, "usage_check_failed")
             /\ r \notin sessions
             /\ ~HasAny(r, RateEv \cup HandlerEv \cup SessionEv \cup IncrEv)

C7_Witness ==
  \E r \in Req :
    /\ Has(r, "cache_err") /\ Has(r, "db_select_err")
    /\ resp[r].code = 500

\* ------------------------------------------------------------------ C8
\* C8: a request of a pro or team principal issues no command on the usage
\* cache entry, the user_usage row or the rate-limit window, and is never
\* answered 402 or 429.
C8_PremiumBypassesLimits ==
  \A r \in Req :
    tier[r] \in {TierPro, TierTeam}
    => /\ ~HasAny(r, QuotaEv \cup CacheSetEv \cup RateEv \cup StatusEv
                     \cup IncrEv \cup InvalEv)
       /\ \A e \in rlSet : e.member # r
       /\ resp[r].code \notin {402, 429}

C8_Witness ==
  \E r \in Req :
    /\ Done(r) /\ tier[r] = TierTeam /\ resp[r].code = 200
    /\ usageRow >= FreeLimit

\* ------------------------------------------------------------------ C9
\* position of an effect in the order quota read, rate-limit check, session
\* insert, usage increment (0: another effect)
Stage(e) ==
  IF e \in QuotaEv THEN 1
  ELSE IF e \in RateEv THEN 2
  ELSE IF e \in SessionEv THEN 3
  ELSE IF e \in IncrEv THEN 4
  ELSE 0

\* C9: the effects of a free request occur in the order quota read,
\* rate-limit check, session insert, usage increment; an accepted one has all
\* four, and no increment is issued before the session insert was attempted.
C9_EffectOrder ==
  \A r \in Req :
    tier[r] = TierFree
    => /\ \A i, j \in DOMAIN log[r] :
            (i < j /\ Stage(log[r][i]) # 0 /\ Stage(log[r][j]) # 0)
            => Stage(log[r][i]) <= Stage(log[r][j])
       /\ HasAny(r, IncrEv) => HasAny(r, SessionEv)
       /\ resp[r].code = 200
          => \A k \in 1..4 : \E i \in DOMAIN log[r] : Stage(log[r][i]) = k

C9_Witness ==
  \E r \in Req :
    /\ tier[r] = TierFree /\ resp[r].code = 200
    /\ Has(r, "session") /\ Has(r, "incr")

\* ------------------------------------------------------------------ C10
\* C10 (as stated): a request whose body fails validation is answered
\* validation_failed without the usage meter being consulted or the
\* rate-limit check run, and never 402 or 429.
C10_ValidationFirst ==
  \A r \in Req :
    (body[r] = "invalid" /\ pc[r] # "idle")
    => /\ ~HasAny(r, QuotaEv \cup RateEv)
       /\ \A e \in rlSet : e.member # r
       /\ resp[r].code \notin {402, 429}

\* C10 (amended): validation follows the quota and the rate limit: a free
\* request is answered validation_failed only after its quota read and its
\* rate-limit check, so it may hold a slot of the window; a request whose body
\* fails validation never inserts a session nor increments the usage.
C10_ValidationAfterLimits ==
  \A r \in Req :
    body[r] = "invalid"
    => /\ (tier[r] = TierFree /\ resp[r].error = "validation_failed")
          => /\ HasAny(r, QuotaEv) /\ HasAny(r, RateEv)
             /\ \A i, j \in DOMAIN log[r] :
                  (log[r][i] \in QuotaEv \cup RateEv /\ log[r][j] = "validate") => i < j
       /\ r \notin sessions
       /\ ~HasAny(r, SessionEv \cup IncrEv)
       /\ Done(r) => resp[r].code \in {400, 402, 429, 500}

C10_Witness ==
  \E r \in Req :
    /\ body[r] = "invalid" /\ tier[r] = TierFree
    /\ resp[r].error = "validation_failed"
    /\ \E e \in rlSet : e.member = r

\* ------------------------------------------------------------------ C11
\* C11: a request whose session insert or usage increment failed goes on
\* through the rest of the handler and is answered 200 with the
\* CollisionResult the engine produced; neither failure yields an error
\* response.
C11_PersistFailureKeepsResult ==
  \A r \in Req :
    HasAny(r, {"session_err", "incr_err"})
    => /\ pc[r] \in {"IncrementUserUsage", "InvalidateUserUsage", "done"}
       /\ Has(r, "engine")
       /\ Done(r) => resp[r] = Response(200, "CollisionResult")

C11_Witness ==
  \E r \in Req :
    /\ Done(r) /\ tier[r] = TierFree
    /\ Has(r, "session_err") /\ r \notin sessions
    /\ HasAny(r, IncrEv)
    /\ resp[r] = Response(200, "CollisionResult")

\* ------------------------------------------------------------------ C12
\* the free generations of the principal that were accepted (answered 200)
Accepted == {r \in Req : tier[r] = TierFree /\ resp[r].code = 200}

\* C12 (as stated): the generations accepted in the weekly window exceed the
\* limit of 5 only through generations in flight concurrently: with requests
\* run one at a time, and the usage row holding the number accepted so far
\* when the first arrives, no more than 5 are ever accepted.
C12_ExcessOnlyConcurrent ==
  pc[1] # "idle"
  => startUsage[1] + Cardinality(Accepted) <= FreeLimit

\* ------------------------------------------------------------------ C13
\* C13 (as stated): once a generation has incremented the counter and
\* invalidated the usage cache entry, the entry (which every later quota
\* check of the principal that hits the cache is decided on) never holds a
\* count older than that increment.  The row never decreases here, so the
\* increment of r left it above startUsage[r], and a cached count of at most
\* startUsage[r] was read before it.
C13_NoStaleCountAfterInvalidate ==
  \A r \in Req :
    (Done(r) /\ Has(r, "incr") /\ Has(r, "inval"))
    => usageCache = NoRow \/ usageCache > startUsage[r]

\* ------------------------------------------------------------------ C14
\* an observation of the usage lower than the one before it
Drops(i) == i + 1 \in DOMAIN obs /\ obs[i + 1].count < obs[i].count

\* C14: under any sequence of quota reads and increments over the days, no
\* row of user_usage ever loses count, and the usage a quota read observes is
\* lower than the one observed before only when it is 0, read from a row the
\* read has just created, the window of the row observed before (7 days from
\* its reset_date) being over.
C14_CountGrowsUntilRollover ==
  [][ /\ \A e \in rows : \E f \in rows' :
            f.reset_date = e.reset_date /\ f.count >= e.count
      /\ \A i \in DOMAIN obs' :
            (i + 1 \in DOMAIN obs' /\ obs'[i + 1].count < obs'[i].count)
            => /\ obs'[i + 1].count = 0
               /\ obs'[i + 1].created
               /\ obs'[i + 1].day - obs'[i].reset_date >= 7 ]_vars

C14_Witness ==
  \E i \in DOMAIN obs : Drops(i) /\ obs[i].count = MaxCount

\* ------------------------------------------------------------------ C15
\* C15 (as stated): a row of user_usage created on day d is matched by the
\* quota read on the days d .. d+6 only: no read returns a row whose
\* reset_date lies 7 or more days back.
C15_WindowIsSevenDays ==
  \A i \in DOMAIN obs : obs[i].day - obs[i].reset_date < 7

\* ------------------------------------------------------------------ C16
\* the engine has returned its result
Generated == epc \notin {"off", "start"}

\* C16 (as stated): for every request and every catalog, the empty one
\* included, the collision_domain of the result of
\* CollisionEngine.GenerateCollision differs from its primary_domain.
C16_CollisionDiffersFromPrimary ==
  Generated => template.collision_domain # template.primary_domain

\* ------------------------------------------------------------------ C17
\* C17: unless it is the sentinel "Innovation", the collision_domain of the
\* result names a domain of the catalog whose intensities contain the
\* requested intensity (with the catalog Biomimicry, Quantum Physics a
\* radical request yields Quantum Physics or the sentinel).
C17_CollisionSuitsIntensity ==
  (Generated /\ template.collision_domain # Sentinel)
  => /\ template.collision_domain \in Range(catalog)
     /\ input.intensity \in Domain(template.collision_domain).intensity

C17_Witness ==
  /\ Generated
  /\ Range(catalog) = {"Biomimicry", "Quantum Physics"}
  /\ input.intensity = "radical"
  /\ template.collision_domain = "Quantum Physics"

\* ------------------------------------------------------------------ C18
\* the domains of the catalog, other than the primary, that suit the request
Admissible ==
  {n \in Range(catalog) : n # template.primary_domain
                           /\ input.intensity \in Domain(n).intensity}

\* C18: when the catalog is empty, or no domain other than the primary suits
\* the requested intensity, the engine returns no error and a result whose
\* collision_domain is the sentinel "Innovation".
C18_SentinelWhenNoCandidate ==
  (Generated /\ Admissible = {})
  => /\ template.collision_domain = Sentinel
     /\ ~template.error
     /\ epc # "failed"

C18_Witness ==
  /\ Generated
  /\ template.primary_domain \in Range(catalog)
  /\ input.intensity \in Domain(template.primary_domain).intensity
  /\ Admissible = {}
  /\ template.collision_domain = Sentinel

\* ------------------------------------------------------------------ C19
\* C19 (as stated): every result answered with status 200 has at least 3
\* spark_questions and at least 3 next_steps, for free and premium
\* principals and whatever the LLM answers.
C19_AtLeastThreeItems ==
  epc = "done"
  => /\ Len(result.spark_questions) >= 3
     /\ Len(result.next_steps) >= 3

\* ------------------------------------------------------------------ C20
\* C20: for a premium principal, a field whose LLM call failed, timed out,
\* came back empty or yielded no item keeps the value of the template; all
\* four calls are made whatever the earlier ones returned, the request is
\* answered (status 200) all the same, and when no call yields anything the
\* result answered is the template's.
C20_FailedCallKeepsTemplate ==
  /\ \A i \in DOMAIN llm :
       llm[i].outcome # "usable" => result[llm[i].field] = template[llm[i].field]
  /\ epc # "failed"
  /\ (epc \in {"Respond", "done"} /\ premium
        /\ template.collision_domain \in Range(catalog))
     => /\ Len(llm) = 4
        /\ llm[1].field = "connection" /\ llm[2].field = "spark_questions"
        /\ llm[3].field = "examples" /\ llm[4].field = "next_steps"
        /\ (\A i \in DOMAIN llm : llm[i].outcome # "usable") => result = template

C20_Witness ==
  /\ epc = "done" /\ premium /\ Len(llm) = 4
  /\ llm[1].outcome = "timeout" /\ llm[2].outcome = "noitem"
  /\ llm[3].outcome = "empty" /\ llm[4].outcome = "error"
  /\ result = template

\* ------------------------------------------------------------------ C21
\* C21 (as stated): every 200 response of the generation route carries the
\* three X-RateLimit-* headers, whatever the tier of the principal and
\* whether or not the cache answered.
C21_HeadersOnEvery200 ==
  \A r \in Req : resp[r].code = 200 => headers[r].set

\* ------------------------------------------------------------------ C22
\* CheckRateLimit returned (true, nil) for the request
Allowed(r) == HasAny(r, {"expire", "expire_err"})

\* C22 (as stated): on an allowed request the X-RateLimit-Remaining header is
\* max(0, L - c - 1), c being the count CheckRateLimit read before it added
\* the request; the header is never negative.
C22_RemainingAfterThisRequest ==
  \A r \in Req :
    (Allowed(r) /\ headers[r].set)
    => /\ headers[r].remaining >= 0
       /\ headers[r].remaining =
            (IF MaxRequests - rlCount[r] - 1 < 0 THEN 0 ELSE MaxRequests - rlCount[r] - 1)

\* ------------------------------------------------------------------ C23
\* CheckRateLimit returned (false, nil) for the request
Denied(r) == Has(r, "zcard") /\ rlCount[r] >= MaxRequests

\* C23 (as stated): a request the rate limiter denies is answered 429
\* rate_limit_exceeded with X-RateLimit-Remaining 0 and a reset delay that is
\* positive and at most W seconds, whatever happens between the decision and
\* the computation of the headers.
C23_DeniedHeaders ==
  \A r \in Req :
    (Denied(r) /\ Done(r))
    => /\ resp[r] = Response(429, "rate_limit_exceeded")
       /\ headers[r].set
       /\ headers[r].remaining = 0
       /\ headers[r].delay > 0
       /\ headers[r].delay <= WindowSeconds * Res

\* ------------------------------------------------------------------ C24
\* the bodies the claim is about: empty interests, an empty project, or a
\* project type or intensity outside its enumeration
OutsideContract(in) ==
  /\ in.wellformed
  /\ \/ Len(in.user_interests) = 0
     \/ in.current_project = ""
     \/ in.project_type \notin {"product", "content", "business", "research"}
     \/ in.collision_intensity \notin {"gentle", "moderate", "radical"}

RateIssued(k) ==
  /\ calls[k].op = "rate" /\ calls[k].id # BadUUID
  /\ calls[k].body.wellformed /\ calls[k].body.rating \in 1..5
  /\ calls[k].code # 500

\* C25 (as stated): rating a session id that does not exist, or that belongs
\* to another principal, is answered 404, never with a success, and changes
\* no session.
C25_RateUnknownSession404 ==
  \A k \in DOMAIN calls :
    (RateIssued(k) /\ ~calls[k].owned)
    => /\ calls[k].code = 404
       /\ ~calls[k].changed

\* ------------------------------------------------------------------ C26
\* call k rated a session of the caller
Rated(k) == RateIssued(k) /\ calls[k].owned /\ calls[k].code = 200

\* C26: when a session has been rated twice, the table holds exactly one row
\* for it, and its rating and notes are those of the later call, also when
\* the later call omits the notes.
C26_SecondRatingOverwrites ==
  \A j, k \in DOMAIN calls :
    (j < k /\ Rated(j) /\ Rated(k) /\ calls[j].id = calls[k].id
       /\ \A m \in DOMAIN calls : (m > k /\ Rated(m)) => calls[m].id # calls[k].id)
    => /\ Cardinality({e \in table : e.id = calls[k].id}) = 1
       /\ \A e \in table :
            e.id = calls[k].id
            => /\ e.user_rating = calls[k].body.rating
               /\ e.exploration_notes = calls[k].body.notes

C26_Witness ==
  \E j, k \in DOMAIN calls :
    /\ j < k /\ Rated(j) /\ Rated(k) /\ calls[j].id = calls[k].id
    /\ calls[j].body.rating = 1 /\ calls[j].body.notes = "a"
    /\ calls[k].body.rating = 5 /\ calls[k].body.notes = NoNotes
    /\ \E e \in table : e.id = calls[k].id /\ e.user_rating = 5
                                           /\ e.exploration_notes = NoNotes

\* ------------------------------------------------------------------ C27
\* the limit of a history read as the interface states it: the parameter
\* when it is an integer in 1..100, else 20
StatedLimit(q) ==
  IF q.text # "" /\ q.int /\ q.value >= 1 /\ q.value <= 100 THEN q.value ELSE 20

\* call k is a history read that directly follows a rating by the same
\* principal of one of its sessions
ReadAfterRating(k) ==
  /\ k > 1 /\ Rated(k - 1)
  /\ calls[k].op = "history" /\ calls[k].code = 200
  /\ calls[k].user = calls[k - 1].user

\* row e is the session call j rated, as created and with the values of j
AsRated(e, j) ==
  /\ e.id = calls[j].id
  /\ e.user_rating = calls[j].body.rating
  /\ e.exploration_notes = calls[j].body.notes
  /\ e = [SessionRow(e.id, calls[j].user) EXCEPT
            !.user_rating = calls[j].body.rating,
            !.exploration_notes = calls[j].body.notes]

StoredRatingsInRange ==
  \A e \in table : e.user_rating = NoRating \/ e.user_rating \in 1..5

\* C27 (as stated): a history read that follows a rating of an own session
\* returns that session with the rating and notes of the call and with its
\* request, result and created_at unchanged; a stored rating is absent or in
\* 1..5.
C27_HistoryReturnsRatedSession ==
  /\ StoredRatingsInRange
  /\ \A k \in DOMAIN calls :
       ReadAfterRating(k)
       => \E i \in DOMAIN calls[k].rows : AsRated(calls[k].rows[i], k - 1)

\* C27 (amended): a history read that follows a rating of an own session
\* shows that session with the rating and notes of the call and with its
\* request, result and created_at unchanged whenever it returns it, and it
\* returns it unless the read is filled by its N sessions; a stored rating is
\* absent or in 1..5.
C27_HistoryShowsRatingWithinLimit ==
  /\ StoredRatingsInRange
  /\ \A k \in DOMAIN calls :
       ReadAfterRating(k)
       => /\ \A i \in DOMAIN calls[k].rows :
               calls[k].rows[i].id = calls[k - 1].id
               => AsRated(calls[k].rows[i], k - 1)
          /\ \/ \E i \in DOMAIN calls[k].rows : calls[k].rows[i].id = calls[k - 1].id
             \/ Len(calls[k].rows) = StatedLimit(calls[k].limit)

C27_Witness ==
  \E k \in DOMAIN calls :
    /\ ReadAfterRating(k)
    /\ calls[k - 1].body.rating = 5 /\ calls[k - 1].body.notes = "a"
    /\ \E i \in DOMAIN calls[k].rows : AsRated(calls[k].rows[i], k - 1)

\* ------------------------------------------------------------------ C28
\* C28: a history read returns only sessions of the caller, newest first,
\* and at most N of them, N being the limit parameter when it is an integer
\* in 1..100 and 20 otherwise.
C28_HistoryOwnNewestAtMostN ==
  \A k \in DOMAIN calls :
    (calls[k].op = "history" /\ calls[k].code = 200)
    => /\ \A i \in DOMAIN calls[k].rows : calls[k].rows[i].user_id = calls[k].user
       /\ \A i, j \in DOMAIN calls[k].rows :
            i < j => calls[k].rows[i].created_at >= calls[k].rows[j].created_at
       /\ Len(calls[k].rows) <= StatedLimit(calls[k].limit)

C28_Witness ==
  \E k, m \in DOMAIN calls :
    /\ calls[k].op = "history" /\ calls[k].limit.text = "101"
    /\ Len(calls[k].rows) = 20
    /\ calls[m].op = "history" /\ calls[m].limit.text = "1"
    /\ Len(calls[m].rows) = 1
    /\ \E e \in table : e.user_id # calls[k].user

\* ------------------------------------------------------------------ C29
\* C29 (as stated): GET /domains/premium answers 402 premium_required to a
\* principal that is neither pro nor team, and returns to a pro or team
\* principal only domains of tier premium, from the cache or the database.
C29_PremiumDomainsOnly ==
  \A k \in DOMAIN calls :
    calls[k].op = "premium_domains"
    => /\ calls[k].tier \notin {"pro", "team"}
          => calls[k].code = 402 /\ calls[k].error = "premium_required"
       /\ calls[k].code = 200
          => \A n \in calls[k].domains : DomainTier(n) = "premium"

\* ------------------------------------------------------------------ C30
\* the durable count of the current window: the count of the latest row
\* whose window of 7 days (reset_date .. reset_date + 6) holds today, 0 when
\* there is none
DurableCount ==
  LET S == {e \in rows : e.reset_date <= today /\ today <= e.reset_date + 6}
  IN IF S = {} THEN 0 ELSE LatestRow(S).count

\* C30 (as stated): GET /collisions/usage reports to a free principal limit
\* 5, used equal to the durable count of the current window and remaining =
\* max(0, 5 - used), so that used + remaining = 5 when used <= 5; to a pro or
\* team principal it reports unlimited without reading the usage counter.
C30_UsageStatusReportsWindow ==
  [][(usageStatus'.n # usageStatus.n /\ usageStatus'.code = 200)
     => IF usageStatus'.tier = "free"
        THEN /\ usageStatus'.limit = 5
             /\ ~usageStatus'.unlimited
             /\ usageStatus'.used = DurableCount'
             /\ usageStatus'.remaining =
                  (IF 5 - usageStatus'.used < 0 THEN 0 ELSE 5 - usageStatus'.used)
             /\ usageStatus'.used <= 5
                  => usageStatus'.used + usageStatus'.remaining = 5
        ELSE /\ usageStatus'.unlimited
             /\ rows' = rows /\ obs' = obs]_vars

\* C31: a generation that is cancelled after it was admitted and before its
\* session insert neither persists a session nor increments the usage counter
C31_CancelledLeavesNoTrace ==
  \A r \in Req :
    cancelled[r] => r \notin sessions /\ ~Has(r, "incr")

\* the candidates that score higher than the selected one
Outranking == {i \in DOMAIN scored : scored[i].OverallScore > picked.OverallScore}

\* K of the intensity
TopK == CASE input.intensity = "gentle" -> 3
          [] input.intensity = "moderate" -> 5
          [] input.intensity = "radical" -> 8

\* C32: the domain the selector returns is one of the K candidates with the
\* highest composite score, K = 3 / 5 / 8 for gentle / moderate / radical:
\* it is a candidate and fewer than K candidates score higher than it (with
\* no candidate at all it is the sentinel)
C32_SelectedAmongTopK ==
  epc = "selected" =>
    IF Len(scored) = 0 THEN picked = FallbackMatch
    ELSE /\ \E i \in DOMAIN scored : scored[i] = picked
         /\ Cardinality(Outranking) < TopK
         /\ \A i \in DOMAIN ranked : i > TopK => ranked[i] # picked

\* the last domain of the pool is chosen while candidates outside score lower
C32_Witness ==
  /\ epc = "selected"
  /\ Len(scored) > TopK
  /\ picked = ranked[TopK]
  /\ \E i \in DOMAIN scored : scored[i].OverallScore < picked.OverallScore

\* C33: a generation for a free principal never returns a collision_domain
\* of the premium tier
C33_FreeCollidesWithBasicOnly ==
  (epc \in {"Respond", "done"} /\ ~premium) =>
    DomainTier(result.collision_domain) # "premium"

\* C34: the id in the body of a successful generation identifies the session
\* the request persisted: a following PUT /collisions/{id}/rate by the same
\* principal with that id stores the rating on that session
C34_ResponseIdRatesSession ==
  \A j \in DOMAIN calls :
    LET k == Len(calls) IN
      ( /\ j < k
        /\ calls[j].op = "generate" /\ calls[j].code = 200 /\ calls[j].changed
        /\ calls[k].op = "rate" /\ calls[k].user = calls[j].user
        /\ calls[k].id = calls[j].result_id
        /\ calls[k].code = 200 )
      => \E e \in table : /\ e.id = calls[j].id
                          /\ e.user_rating = calls[k].body.rating
                          /\ e.exploration_notes = calls[k].body.notes

\* C35: the CollisionResult stored in the persisted session is the
\* CollisionResult of the 200 response of the same request, for premium
\* principals too: the enrichment is applied before the session is stored
C35_StoredIsAnswered ==
  (epc = "done" /\ stored # NoResult) => stored = result

\* a premium run whose result the enrichment has changed is stored as answered
C35_Witness ==
  /\ epc = "done" /\ premium
  /\ result # template
  /\ stored = result

\* C36: a rate-limit check that denies a request adds no member to the
\* principal's window and does not extend the TTL of the key: no step of a
\* request whose count reached the limit adds an entry or sets a TTL, and no
\* entry of such a request is ever in the window
C36_DeniedCheckLeavesKey ==
  [][ \A r \in Req :
        Denied(r) =>
          /\ \A e \in rlSet' : e.member # r
          /\ pc'[r] # pc[r] => (rlSet' \subseteq rlSet /\ rlTTL' \in {rlTTL, NoTTL}) ]_vars

\* a request has been denied with 429 while the window holds the entry of
\* another request and the key its TTL
C36_Witness ==
  \E r \in Req :
    /\ Denied(r) /\ pc[r] = "done" /\ resp[r].code = 429
    /\ rlSet # {} /\ rlTTL # NoTTL

\* C37: the expiry of the rate-limit key never removes an entry that is
\* still inside the sliding window: when the key expires, every entry it
\* holds is one the window rule evicts at that moment
C37_ExpiryRemovesOnlyEvictable ==
  [][ (now' # now /\ rlSet # {} /\ rlTTL # NoTTL /\ now' >= rlTTL)
        => \A e \in rlSet : e.score <= Unix(now' - cfg.WindowSeconds * Res) ]_vars

\* C38: a request without an authenticated principal is rate-limited by the
\* client's IP address: it is rejected with 429 only once L requests of the
\* client have been admitted in the window
C38_AnonymousLimitedByIP ==
  \A r \in Req :
    (Has(r, "anonymous") /\ resp[r].code = 429) =>
      Cardinality({q \in Req : q < r /\ Has(q, "anonymous") /\ pc[q] = "Handler"})
        >= cfg.MaxRequests

\* C39: GET /collisions/health reports "unhealthy" with 503 whenever the
\* database handle or the collision engine is unavailable, whatever the state
\* of the cache and of the AI service; otherwise it answers 200, "degraded"
\* if the cache or the AI service is unavailable and "healthy" if all four
\* are available
C39_HealthReflectsComponents ==
  \A k \in DOMAIN calls :
    calls[k].op = "health" =>
      IF "database" \in calls[k].down \/ "collision_engine" \in calls[k].down
      THEN calls[k].error = "unhealthy" /\ calls[k].code = 503
      ELSE /\ calls[k].code = 200
           /\ calls[k].error = IF "cache" \in calls[k].down \/ "ai_service" \in calls[k].down
                               THEN "degraded" ELSE "healthy"
====
